---- MODULE Spec2Model ----
\* MedBraille (src/app.py): a Streamlit script that turns an uploaded medical
\* PDF into a summary, a highlighted summary, a Braille text and an audio file.
\* Texts are sequences of one-character strings.
EXTENDS Naturals, Sequences, FiniteSets, TLC

\* ---------------------------------------------------------------- bounds
\* Browser sessions whose script runs execute concurrently (one thread each).
NumSessions == 2
\* Tokens concatenated into an input text of the highlighter.
MaxTokens == 3
\* How far the lengths of the summarizer's input texts range around 0 and
\* around the fallback length.
MaxExtra == 3

\* ------------------------------------------------------------- characters
UPPER == <<"A","B","C","D","E","F","G","H","I","J","K","L","M",
           "N","O","P","Q","R","S","T","U","V","W","X","Y","Z">>
LOWER == <<"a","b","c","d","e","f","g","h","i","j","k","l","m",
           "n","o","p","q","r","s","t","u","v","w","x","y","z">>
DIGITS == {"0","1","2","3","4","5","6","7","8","9"}

\* str.lower() on one character.
LowerChar(c) ==
    IF \E i \in 1..26 : UPPER[i] = c
    THEN LOWER[CHOOSE i \in 1..26 : UPPER[i] = c]
    ELSE c

\* str.lower() on a text.
LowerStr(s) == [i \in 1..Len(s) |-> LowerChar(s[i])]

\* flashtext's non_word_boundaries: letters, digits and the underscore.
IsWordChar(c) ==
    \/ \E i \in 1..26 : UPPER[i] = c \/ LOWER[i] = c
    \/ c \in DIGITS
    \/ c = "_"

\* ------------------------------------------------------------ vocabulary
MEDICAL_TERMS ==
    << <<"c","a","n","c","e","r">>,
       <<"d","i","a","b","e","t","e","s">>,
       <<"h","y","p","e","r","t","e","n","s","i","o","n">>,
       <<"c","o","v","i","d">>,
       <<"a","l","l","e","r","g","y">>,
       <<"c","h","o","l","e","s","t","e","r","o","l">>,
       <<"d","i","a","g","n","o","s","i","s">>,
       <<"s","y","m","p","t","o","m">>,
       <<"t","r","e","a","t","m","e","n","t">>,
       <<"d","o","s","e">> >>

\* ----------------------------------------------------- keyword replacement
\* KeywordProcessor.add_keywords_from_list(terms): every term is stored under
\* its lower-cased form (case_sensitive is False) with itself as clean name.
\* A later term overwrites an earlier one with the same lower-cased form.
CleanName(terms, word) ==
    LET hits == {i \in 1..Len(terms) : LowerStr(terms[i]) = LowerStr(word)}
    IN  terms[CHOOSE i \in hits : \A j \in hits : j <= i]

IsKeyword(terms, word) ==
    \E i \in 1..Len(terms) : LowerStr(terms[i]) = LowerStr(word)

\* A matcher that marks a longer word ending in a keyword instead of leaving
\* it alone.
EmitWordInside(terms, word) ==
    IF word # <<>> /\ IsKeyword(terms, word) THEN CleanName(terms, word)
    ELSE IF \E k \in 2..Len(word) : IsKeyword(terms, SubSeq(word, k, Len(word)))
         THEN <<"*">> \o word \o <<"*">>
         ELSE word

\* What replace_keywords appends for a finished word: the clean name of the
\* keyword it matches, else the word as it was written.
EmitWord(terms, word) ==
    IF word # <<>> /\ IsKeyword(terms, word) THEN CleanName(terms, word) ELSE word

\* KeywordProcessor.replace_keywords(sentence): scan left to right, collect the
\* current word up to the next character that is not a word character, and
\* replace the word when it is a keyword (whole words only, any casing).
RECURSIVE ReplaceFrom(_, _, _, _)
ReplaceFrom(terms, s, idx, word) ==
    IF idx > Len(s) THEN EmitWord(terms, word)
    ELSE IF IsWordChar(s[idx])
         THEN ReplaceFrom(terms, s, idx + 1, Append(word, s[idx]))
         ELSE EmitWord(terms, word) \o <<s[idx]>> \o ReplaceFrom(terms, s, idx + 1, <<>>)

replace_keywords(terms, sentence) ==
    IF sentence = <<>> THEN sentence ELSE ReplaceFrom(terms, sentence, 1, <<>>)

\* highlight_medical_terms with the vocabulary made explicit.
HighlightWith(terms, text) == replace_keywords(terms, text)

highlight_medical_terms(text) == HighlightWith(MEDICAL_TERMS, text)

\* ------------------------------------------------------------------ texts
T_Dose == <<"D","o","s","e">>
T_ok == <<"o","k">>
T_fine == <<"f","i","n","e",".">>

\* Uploaded PDFs, each the sequence of its pages' texts: a blank page, two
\* blank pages, and a two-page report.
DOCUMENTS == { << <<>> >>, << <<>>, <<>> >>, << T_Dose, T_ok >> }

\* Vocabularies a deployment of the script may carry in MEDICAL_TERMS.
ALT_TERMS == << <<"O","K">> >>
VOCABULARIES == {MEDICAL_TERMS, ALT_TERMS}

\* What the summarization model may answer (min_length=100 tokens: never
\* nothing); which answer it gives for which text is the model's business.
MODEL_SUMMARIES == {T_Dose \o <<" ">> \o T_ok, T_fine}

\* ------------------------------------------------------------- the stages
Min(a, b) == IF a <= b THEN a ELSE b

\* text += page.get_text() over the pages, in order.
RECURSIVE ConcatPages(_)
ConcatPages(pages) ==
    IF pages = <<>> THEN <<>> ELSE Head(pages) \o ConcatPages(Tail(pages))

\* "\n".join(image_to_string(img) for img in images).
RECURSIVE JoinPages(_)
JoinPages(pages) ==
    IF pages = <<>> THEN <<>>
    ELSE IF Len(pages) = 1 THEN Head(pages)
    ELSE Head(pages) \o <<"\n">> \o JoinPages(Tail(pages))

\* extract_text_from_pdf: the outcomes for one document. `fault` says whether
\* the underlying library raised, `raised` whether the function let it out.
ExtractOutcomes(pages, scanned) ==
    IF scanned
    THEN { [ret |-> JoinPages(pages), fault |-> FALSE, raised |-> FALSE, msgs |-> <<>>],
           [ret |-> <<>>, fault |-> TRUE, raised |-> FALSE, msgs |-> <<"OCR Error">>] }
    ELSE { [ret |-> ConcatPages(pages), fault |-> FALSE, raised |-> FALSE, msgs |-> <<>>],
           [ret |-> <<>>, fault |-> TRUE, raised |-> TRUE, msgs |-> <<>>] }

\* text[:500]
FALLBACK_CHARS == 500

\* The slice taken from the wrong end: text[500:].
TruncateTail(text) == SubSeq(text, FALLBACK_CHARS + 1, Len(text))

\* The slice one character too long: text[:501].
TruncateOneMore(text) == SubSeq(text, 1, Min(Len(text), FALLBACK_CHARS + 1))

Truncate(text) == SubSeq(text, 1, Min(Len(text), FALLBACK_CHARS))

\* summarize_text: the model's answer, or on any exception the truncation.
SummarizeOutcomes(text) ==
    { [ret |-> m, fault |-> FALSE, msgs |-> <<>>] : m \in MODEL_SUMMARIES }
    \cup { [ret |-> Truncate(text), fault |-> TRUE, msgs |-> <<"Summarization Error">>] }

\* louis.translateString: an external table-driven translation, kept as a
\* function of its input that marks every character as a Braille cell.
Translate(text) == [i \in 1..Len(text) |-> <<"cell", text[i]>>]

\* convert_to_braille swallowing the exception without a message
\* (except: return "").
BrailleOutcomesSilent(text) ==
    { [ret |-> Translate(text), fault |-> FALSE, msgs |-> <<>>],
      [ret |-> <<>>, fault |-> TRUE, msgs |-> <<>>] }

\* convert_to_braille: the translation, or on any exception the empty string.
BrailleOutcomes(text) ==
    { [ret |-> Translate(text), fault |-> FALSE, msgs |-> <<>>],
      [ret |-> <<>>, fault |-> TRUE, msgs |-> <<"Braille Conversion Error">>] }

\* The file summary.mp3 in the working directory, shared by all sessions.
NoFile == [exists |-> FALSE, writer |-> 0, speech |-> <<>>, complete |-> FALSE]

\* text_to_speech(text, "summary.mp3") called by session r: gTTS(...) and
\* tts.save(filename). save opens the file for writing and then fetches the
\* audio, so a failure comes either before the file exists or after it was
\* created; either way the except clause returns None.
SpeechOutcomes(r, text, file) ==
    { [ret |-> "summary.mp3", fault |-> FALSE, msgs |-> <<>>,
       file |-> [exists |-> TRUE, writer |-> r, speech |-> text, complete |-> TRUE]],
      [ret |-> "None", fault |-> TRUE, msgs |-> <<"Audio Generation Error">>,
       file |-> file],
      [ret |-> "None", fault |-> TRUE, msgs |-> <<"Audio Generation Error">>,
       file |-> [exists |-> TRUE, writer |-> r, speech |-> text, complete |-> FALSE]] }

\* ------------------------------------------------------------------ state
Sessions == 1..NumSessions

VARIABLES
    run,          \* per session: the script run processing its upload
    summary_mp3,  \* the file "summary.mp3"
    hl_in,        \* highlighter checked alone: its input,
    hl_out,       \*   its output,
    hl_done       \*   and whether it has run

vars == <<run, summary_mp3, hl_in, hl_out, hl_done>>

\* A script run before a file is uploaded (a fresh module namespace).
FreshRun ==
    [pc |-> "idle",
     uploaded_file |-> << <<>> >>,
     is_scanned |-> FALSE,
     terms |-> MEDICAL_TERMS,
     tmp_file |-> FALSE,            \* whether the file at tmp_path exists
     raw_text |-> <<>>,
     summary |-> <<>>,
     highlighted_summary |-> <<>>,
     braille_output |-> <<>>,
     audio_file |-> "unbound",      \* "unbound", "None" or "summary.mp3"
     pending |-> "none",            \* exception in flight through finally
     uncaught |-> "none",           \* exception that left the script
     halted |-> FALSE,              \* the extraction gate stopped the run
     faults |-> {},                 \* stages whose library call raised
     escaped |-> {},                \* stages that let an exception out
     messages |-> <<>>,             \* st.error messages, in order
     calls |-> <<>>,                \* stage invocations, in order
     unlinks |-> 0,                 \* os.unlink(tmp_path) attempts
     shown |-> {},                  \* artifacts put on the page
     played |-> NoFile]             \* the file content st.audio delivered

Init ==
    /\ run = [r \in Sessions |-> FreshRun]
    /\ summary_mp3 = NoFile
    /\ hl_in = <<>>
    /\ hl_out = <<>>
    /\ hl_done = FALSE

Call(stage, arg) == [stage |-> stage, arg |-> arg]

Say(rec, msgs) == [rec EXCEPT !.messages = @ \o msgs]

\* ---------------------------------------------------------------- actions
\* A file is uploaded in session r: the script runs from the top with a fresh
\* namespace and writes the upload to a new temporary file (delete=False).
Upload(r) ==
    /\ run[r].pc \in {"idle", "end"}
    /\ \E pages \in DOCUMENTS, scanned \in BOOLEAN :
          run' = [run EXCEPT ![r] =
                     [FreshRun EXCEPT !.pc = "extract",
                                      !.uploaded_file = pages,
                                      !.is_scanned = scanned,
                                      !.tmp_file = TRUE]]
    /\ UNCHANGED <<summary_mp3, hl_in, hl_out, hl_done>>

\* Step 1: raw_text = extract_text_from_pdf(tmp_path, is_scanned). An
\* exception the function lets out goes to the except clause of the pipeline.
Extract(r) ==
    /\ run[r].pc = "extract"
    /\ \E o \in ExtractOutcomes(run[r].uploaded_file, run[r].is_scanned) :
          LET called == [run[r] EXCEPT
                            !.calls = Append(@, Call("extract_text_from_pdf", <<>>)),
                            !.faults = IF o.fault THEN @ \cup {"extract"} ELSE @]
          IN  run' = [run EXCEPT ![r] =
                 IF o.raised
                 THEN [called EXCEPT !.pc = "except",
                                     !.escaped = @ \cup {"extract"}]
                 ELSE [Say(called, o.msgs) EXCEPT !.pc = "gate",
                                                  !.raw_text = o.ret]]
    /\ UNCHANGED <<summary_mp3, hl_in, hl_out, hl_done>>

\* Gate with the test inverted (if raw_text): a run with text is stopped.
GateInverted(r) ==
    /\ run[r].pc = "gate"
    /\ run' = [run EXCEPT ![r] =
          IF run[r].raw_text # <<>>
          THEN [Say(run[r], <<"Failed to extract text from document">>) EXCEPT
                    !.tmp_file = FALSE,
                    !.unlinks = @ + 1,
                    !.halted = TRUE,
                    !.pending = "StopException",
                    !.pc = "finally"]
          ELSE [run[r] EXCEPT !.pc = "summarize"]]
    /\ UNCHANGED <<summary_mp3, hl_in, hl_out, hl_done>>

\* Gate with the test for a missing value instead of an empty one
\* (if raw_text is None): an empty text goes on to the summarizer.
GateNoneOnly(r) ==
    /\ run[r].pc = "gate"
    /\ run' = [run EXCEPT ![r] = [run[r] EXCEPT !.pc = "summarize"]]
    /\ UNCHANGED <<summary_mp3, hl_in, hl_out, hl_done>>

\* if not raw_text: st.error(...); os.unlink(tmp_path); st.stop(). st.stop()
\* raises Streamlit's StopException, which is no subclass of Exception: the
\* except clause lets it pass and the finally clause runs with it pending.
Gate(r) ==
    /\ run[r].pc = "gate"
    /\ run' = [run EXCEPT ![r] =
          IF run[r].raw_text = <<>>
          THEN [Say(run[r], <<"Failed to extract text from document">>) EXCEPT
                    !.tmp_file = FALSE,
                    !.unlinks = @ + 1,
                    !.halted = TRUE,
                    !.pending = "StopException",
                    !.pc = "finally"]
          ELSE [run[r] EXCEPT !.pc = "summarize"]]
    /\ UNCHANGED <<summary_mp3, hl_in, hl_out, hl_done>>

\* Step 2: summary = summarize_text(raw_text).
Summarize(r) ==
    /\ run[r].pc = "summarize"
    /\ \E o \in SummarizeOutcomes(run[r].raw_text) :
          run' = [run EXCEPT ![r] =
                     [Say(run[r], o.msgs) EXCEPT
                         !.calls = Append(@, Call("summarize_text", run[r].raw_text)),
                         !.faults = IF o.fault THEN @ \cup {"summarize"} ELSE @,
                         !.summary = o.ret,
                         !.pc = "highlight"]]
    /\ UNCHANGED <<summary_mp3, hl_in, hl_out, hl_done>>

\* Step 3: highlighted_summary = highlight_medical_terms(summary), under the
\* vocabulary this deployment carries.
Highlight(r) ==
    /\ run[r].pc = "highlight"
    /\ \E terms \in VOCABULARIES :
          run' = [run EXCEPT ![r] =
                     [run[r] EXCEPT
                         !.calls = Append(@, Call("highlight_medical_terms", run[r].summary)),
                         !.terms = terms,
                         !.highlighted_summary = HighlightWith(terms, run[r].summary),
                         !.pc = "braille"]]
    /\ UNCHANGED <<summary_mp3, hl_in, hl_out, hl_done>>

\* Step 4 fed with the highlighter's output instead of the summary.
BrailleInputHighlighted(rec) == rec.highlighted_summary

\* The argument of convert_to_braille at step 4.
BrailleInput(rec) == rec.summary

\* Step 4: braille_output = convert_to_braille(summary).
Braille(r) ==
    /\ run[r].pc = "braille"
    /\ \E o \in BrailleOutcomes(BrailleInput(run[r])) :
          run' = [run EXCEPT ![r] =
                     [Say(run[r], o.msgs) EXCEPT
                         !.calls = Append(@, Call("convert_to_braille", BrailleInput(run[r]))),
                         !.faults = IF o.fault THEN @ \cup {"braille"} ELSE @,
                         !.braille_output = o.ret,
                         !.pc = "speech"]]
    /\ UNCHANGED <<summary_mp3, hl_in, hl_out, hl_done>>

\* The argument of text_to_speech at step 5.
SpeechInput(rec) == rec.summary

\* Step 5: audio_file = text_to_speech(summary).
Speech(r) ==
    /\ run[r].pc = "speech"
    /\ \E o \in SpeechOutcomes(r, SpeechInput(run[r]), summary_mp3) :
          /\ run' = [run EXCEPT ![r] =
                     [Say(run[r], o.msgs) EXCEPT
                         !.calls = Append(@, Call("text_to_speech", SpeechInput(run[r]))),
                         !.faults = IF o.fault THEN @ \cup {"speech"} ELSE @,
                         !.audio_file = o.ret,
                         !.pc = "display"]]
          /\ summary_mp3' = o.file
    /\ UNCHANGED <<hl_in, hl_out, hl_done>>

\* Display Results: the highlighted summary, the Braille text and its
\* download button.
Display(r) ==
    /\ run[r].pc = "display"
    /\ run' = [run EXCEPT ![r] =
                  [run[r] EXCEPT !.shown = @ \cup {"summary", "braille"},
                                 !.pc = "audio"]]
    /\ UNCHANGED <<summary_mp3, hl_in, hl_out, hl_done>>

\* if audio_file: st.audio(audio_file), which reads the file and raises when
\* it is not there.
PlayAudio(r) ==
    /\ run[r].pc = "audio"
    /\ run' = [run EXCEPT ![r] =
          IF run[r].audio_file # "summary.mp3"
          THEN [run[r] EXCEPT !.pc = "finally"]
          ELSE IF summary_mp3.exists
               THEN [run[r] EXCEPT !.shown = @ \cup {"audio"},
                                   !.played = summary_mp3,
                                   !.pc = "download"]
               ELSE [run[r] EXCEPT !.escaped = @ \cup {"display"},
                                   !.pc = "except"]]
    /\ UNCHANGED <<summary_mp3, hl_in, hl_out, hl_done>>

\* with open(audio_file, "rb") as f: st.download_button(...).
OfferAudio(r) ==
    /\ run[r].pc = "download"
    /\ run' = [run EXCEPT ![r] =
          IF summary_mp3.exists
          THEN [run[r] EXCEPT !.shown = @ \cup {"audio_download"},
                              !.pc = "finally"]
          ELSE [run[r] EXCEPT !.escaped = @ \cup {"display"},
                              !.pc = "except"]]
    /\ UNCHANGED <<summary_mp3, hl_in, hl_out, hl_done>>

\* An except clause that runs the pipeline once more from step 1 instead of
\* giving up.
HandlerRetry(r) ==
    /\ run[r].pc = "except"
    /\ run' = [run EXCEPT ![r] =
                  [Say(run[r], <<"Processing failed">>) EXCEPT
                      !.pc = IF Len(run[r].calls) = 1 THEN "extract" ELSE "finally"]]
    /\ UNCHANGED <<summary_mp3, hl_in, hl_out, hl_done>>

\* except Exception as e: st.error("Processing failed: ...").
Handler(r) ==
    /\ run[r].pc = "except"
    /\ run' = [run EXCEPT ![r] =
                  [Say(run[r], <<"Processing failed">>) EXCEPT !.pc = "finally"]]
    /\ UNCHANGED <<summary_mp3, hl_in, hl_out, hl_done>>

\* The script run is over: by st.stop(), or by falling out of the pipeline.
Finished(rec) == [rec EXCEPT !.pc = "end"]

\* An exception raised inside the finally clause leaves the script.
Crashed(rec, exc) == [rec EXCEPT !.pc = "end", !.uncaught = exc, !.pending = "none"]

\* finally: os.unlink(tmp_path), which raises when the file is gone.
UnlinkTmp(r) ==
    /\ run[r].pc = "finally"
    /\ run' = [run EXCEPT ![r] =
          LET tried == [run[r] EXCEPT !.unlinks = @ + 1]
          IN  IF run[r].tmp_file
              THEN [tried EXCEPT !.tmp_file = FALSE, !.pc = "cleanup_audio"]
              ELSE Crashed(tried, "FileNotFoundError")]
    /\ UNCHANGED <<summary_mp3, hl_in, hl_out, hl_done>>

\* finally: if audio_file and os.path.exists(audio_file): reading a name that
\* was never bound raises NameError.
CheckAudio(r) ==
    /\ run[r].pc = "cleanup_audio"
    /\ run' = [run EXCEPT ![r] =
          IF run[r].audio_file = "unbound" THEN Crashed(run[r], "NameError")
          ELSE IF run[r].audio_file = "summary.mp3" /\ summary_mp3.exists
               THEN [run[r] EXCEPT !.pc = "remove_audio"]
               ELSE Finished(run[r])]
    /\ UNCHANGED <<summary_mp3, hl_in, hl_out, hl_done>>

\* finally: os.remove(audio_file), which raises when the file is gone.
RemoveAudio(r) ==
    /\ run[r].pc = "remove_audio"
    /\ IF summary_mp3.exists
       THEN /\ summary_mp3' = NoFile
            /\ run' = [run EXCEPT ![r] = Finished(run[r])]
       ELSE /\ summary_mp3' = summary_mp3
            /\ run' = [run EXCEPT ![r] = Crashed(run[r], "FileNotFoundError")]
    /\ UNCHANGED <<hl_in, hl_out, hl_done>>

\* The upload is removed: the script runs again with uploaded_file None, skips
\* the pipeline and leaves an empty page.
Clear(r) ==
    /\ run[r].pc = "end"
    /\ run' = [run EXCEPT ![r] = FreshRun]
    /\ UNCHANGED <<summary_mp3, hl_in, hl_out, hl_done>>

\* One line of the script run of session r (Upload starts it).
Execute(r) ==
    \/ Extract(r)
    \/ Gate(r)
    \/ Summarize(r)
    \/ Highlight(r)
    \/ Braille(r)
    \/ Speech(r)
    \/ Display(r)
    \/ PlayAudio(r)
    \/ OfferAudio(r)
    \/ Handler(r)
    \/ UnlinkTmp(r)
    \/ CheckAudio(r)
    \/ RemoveAudio(r)

\* Requests processed one at a time, each synchronously end to end: an upload
\* is taken only while every other session shows the empty page.
Alone(r) == \A q \in Sessions \ {r} : run[q].pc = "idle"

UploadAlone(r) == Alone(r) /\ Upload(r)

Next == \E r \in Sessions : UploadAlone(r) \/ Execute(r) \/ Clear(r)

Spec == Init /\ [][Next]_vars

\* The script thread of a started run keeps executing.
FairSpec == Spec /\ \A r \in Sessions : WF_vars(Execute(r))

\* Sessions whose script runs overlap in time, each in its own thread, all on
\* uploads of the two-page report read structurally.
UploadReport(r) ==
    /\ Upload(r)
    /\ run'[r].uploaded_file = << T_Dose, T_ok >>
    /\ ~run'[r].is_scanned

ConcurrentNext == \E r \in Sessions : UploadReport(r) \/ Execute(r) \/ Clear(r)

ConcurrentSpec == Init /\ [][ConcurrentNext]_vars

\* ------------------------------------------------ the highlighter alone
T_diabetes == <<"d","i","a","b","e","t","e","s">>
T_Diabetes == <<"D","i","a","b","e","t","e","s">>
T_DOSE == <<"D","O","S","E">>
T_prediabetes == <<"p","r","e">> \o T_diabetes
T_has == <<"h","a","s">>

TOKENS == {T_diabetes, T_Diabetes, T_DOSE, T_prediabetes, T_has, <<" ">>, <<".">>}

\* "Patient has diabetes and hypertension."
EXAMPLE ==
    <<"P","a","t","i","e","n","t"," ">> \o T_has \o <<" ">> \o T_diabetes
    \o <<" ","a","n","d"," ","h","y","p","e","r","t","e","n","s","i","o","n",".">>

\* Texts of at most n tokens.
RECURSIVE TokenTexts(_)
TokenTexts(n) ==
    IF n = 0 THEN {<<>>}
    ELSE LET shorter == TokenTexts(n - 1)
         IN  shorter \cup {t \o w : t \in shorter, w \in TOKENS}

HighlightInputs == TokenTexts(MaxTokens) \cup {EXAMPLE}

HighlightInit ==
    /\ run = [r \in Sessions |-> FreshRun]
    /\ summary_mp3 = NoFile
    /\ hl_in \in HighlightInputs
    /\ hl_out = <<>>
    /\ hl_done = FALSE

\* highlight_medical_terms(hl_in) is called.
HighlightText ==
    /\ ~hl_done
    /\ hl_out' = highlight_medical_terms(hl_in)
    /\ hl_done' = TRUE
    /\ UNCHANGED <<run, summary_mp3, hl_in>>

HighlightSpec == HighlightInit /\ [][HighlightText]_vars

\* ------------------------------------------------ the summarizer alone
\* A text of n letters, the alphabet's first seven in turn from the k-th on.
PatternText(n, k) == [i \in 1..n |-> LOWER[((i + k) % 7) + 1]]

\* Texts as short as nothing and as long as the fallback length, give or take.
SummarizerInputs ==
    LET lengths == (1..MaxExtra)
                   \cup {n \in 1..(FALLBACK_CHARS + MaxExtra) : n + MaxExtra >= FALLBACK_CHARS}
    IN  {PatternText(n, k) : n \in lengths, k \in 0..6}

\* The run of a one-page document with this text, read structurally, that
\* has passed the gate and is about to call summarize_text.
AboutToSummarize(text) ==
    [FreshRun EXCEPT !.pc = "summarize",
                     !.uploaded_file = <<text>>,
                     !.tmp_file = TRUE,
                     !.raw_text = text,
                     !.calls = <<Call("extract_text_from_pdf", <<>>)>>]

SummarizerInit ==
    /\ \E text \in SummarizerInputs :
          run = [r \in Sessions |-> IF r = 1 THEN AboutToSummarize(text) ELSE FreshRun]
    /\ summary_mp3 = NoFile
    /\ hl_in = <<>>
    /\ hl_out = <<>>
    /\ hl_done = FALSE

SummarizerNext == \E r \in Sessions : Summarize(r)

SummarizerSpec == SummarizerInit /\ [][SummarizerNext]_vars

\* ------------------------------------------------- orchestrator states
\* The state of the request of a run, in the terms of the pipeline's stages:
\* Failed once the extraction gate stopped the run, Done once the results of
\* steps 3 to 5 are collected (audio_file is bound), Aborted when the except
\* clause took over before that.
OrchState(rec) ==
    IF rec.halted THEN "Failed"
    ELSE IF rec.pc = "idle" THEN "Idle"
    ELSE IF rec.audio_file # "unbound" THEN "Done"
    ELSE IF rec.pc \in {"extract", "gate"} THEN "Extracting"
    ELSE IF rec.pc = "summarize" THEN "Summarizing"
    ELSE IF rec.pc = "highlight" THEN "Highlighting"
    ELSE IF rec.pc = "braille" THEN "Transliterating"
    ELSE IF rec.pc = "speech" THEN "Synthesizing"
    ELSE "Aborted"

\* The stages session r has invoked so far.
Invoked(rec) == {rec.calls[i].stage : i \in 1..Len(rec.calls)}

\* extract_text_from_pdf has returned (not raised) in this run.
Extracted(rec) == rec.pc \notin {"idle", "extract"} /\ "extract" \notin rec.escaped

\* ------------------------------------------------------------------ claims
\* C1: when the extractor returns the empty string, summarize_text,
\* highlight_medical_terms, convert_to_braille and text_to_speech are never
\* invoked in that request, no summary, Braille or audio is produced or shown,
\* and once the gate has acted the request is in the Failed state and stays
\* there to its end.
C1_EmptyTextHalts ==
    \A r \in Sessions :
        (Extracted(run[r]) /\ run[r].raw_text = <<>>) =>
            /\ Invoked(run[r]) = {"extract_text_from_pdf"}
            /\ run[r].summary = <<>>
            /\ run[r].braille_output = <<>>
            /\ run[r].audio_file = "unbound"
            /\ run[r].shown = {}
            /\ run[r].pc # "gate" => OrchState(run[r]) = "Failed"

C1_Witness ==
    \E r \in Sessions :
        /\ run[r].pc = "end"
        /\ Extracted(run[r])
        /\ run[r].raw_text = <<>>
        /\ OrchState(run[r]) = "Failed"

\* C2: after a request has completed, on every exit path, neither its
\* temporary document file nor an audio file it wrote exists.
C2_NoArtifactLeft ==
    \A r \in Sessions :
        run[r].pc = "end" =>
            /\ ~run[r].tmp_file
            /\ ~(summary_mp3.exists /\ summary_mp3.writer = r)

\* C3: no exception leaves the pipeline uncaught, the finally clause included.
C3_NothingUncaught ==
    \A r \in Sessions : run[r].uncaught = "none"

\* C4: on both extraction paths an exception of the underlying extraction is
\* caught inside extract_text_from_pdf, reported to the user, and the function
\* returns the empty string instead of raising.
C4_ExtractorCatches ==
    \A r \in Sessions :
        "extract" \in run[r].faults =>
            /\ "extract" \notin run[r].escaped
            /\ run[r].raw_text = <<>>
            /\ run[r].messages # <<>>

\* C5: concurrent requests share no mutable state: the audio file a request
\* is about to play or offer for download is there and is the one this
\* request synthesized, whatever another request in flight does.
C5_AudioIsOwn ==
    \A r \in Sessions :
        (run[r].pc \in {"audio", "download"} /\ run[r].audio_file = "summary.mp3") =>
            /\ summary_mp3.exists
            /\ summary_mp3.writer = r

\* Results of steps 2 to 5 are collected and the summary and the Braille text
\* are on the page.
Collected(rec) ==
    /\ OrchState(rec) = "Done"
    /\ {"summarize_text", "highlight_medical_terms", "convert_to_braille",
        "text_to_speech"} \subseteq Invoked(rec)
    /\ {"summary", "braille"} \subseteq rec.shown

\* C6: a request enters Failed only from Extracting, and once extraction has
\* returned a non-empty text the request eventually is Done with its results
\* collected, whichever of summarizer, transliterator and synthesizer fail.
C6_NonEmptyTextReachesDone ==
    /\ [][\A r \in Sessions :
            (OrchState(run[r])' = "Failed" /\ OrchState(run[r]) # "Failed")
                => OrchState(run[r]) = "Extracting"]_vars
    /\ \A r \in Sessions :
            (run[r].pc = "gate" /\ run[r].raw_text # <<>>)
                ~> Collected(run[r])

C6_Witness ==
    \E r \in Sessions :
        /\ Collected(run[r])
        /\ {"summarize", "braille", "speech"} \subseteq run[r].faults
        /\ run[r].braille_output = <<>>
        /\ run[r].audio_file = "None"

\* C7: for a non-empty extracted text the summary is non-empty, from the model
\* or from the truncation fallback, and so is what the highlighter, the
\* transliterator and the synthesizer are called with.
C7_SummaryNonEmpty ==
    \A r \in Sessions :
        /\ "summarize_text" \in Invoked(run[r]) => run[r].summary # <<>>
        /\ \A i \in 1..Len(run[r].calls) :
              run[r].calls[i].stage \in {"highlight_medical_terms", "convert_to_braille",
                                         "text_to_speech"}
                  => run[r].calls[i].arg # <<>>

C7_Witness ==
    \E r \in Sessions :
        /\ "summarize" \in run[r].faults
        /\ "text_to_speech" \in Invoked(run[r])
        /\ run[r].summary = run[r].raw_text
        /\ run[r].summary # <<>>

\* C8: the transliterator and the synthesizer are called with exactly the
\* value summarize_text returned, and the Braille text and the audio are
\* determined by that summary and their own stage's outcome alone: nothing in
\* them depends on the vocabulary the run highlights with, so runs that
\* differ only in the vocabulary produce the same Braille text and audio.
C8_VocabularyDoesNotInterfere ==
    \A r \in Sessions :
        /\ \A i \in 1..Len(run[r].calls) :
              run[r].calls[i].stage \in {"convert_to_braille", "text_to_speech"}
                  => run[r].calls[i].arg = run[r].summary
        /\ "convert_to_braille" \in Invoked(run[r]) =>
              run[r].braille_output =
                  IF "braille" \in run[r].faults THEN <<>> ELSE Translate(run[r].summary)
        /\ run[r].audio_file = "summary.mp3" /\ summary_mp3.exists =>
              summary_mp3.speech = run[r].summary
        /\ run[r].played.exists => run[r].played.speech = run[r].summary

C8_Witness ==
    \E r \in Sessions :
        /\ run[r].terms = ALT_TERMS
        /\ run[r].highlighted_summary # run[r].summary
        /\ run[r].braille_output = Translate(run[r].summary)
        /\ run[r].played.exists
        /\ run[r].played.speech = run[r].summary

\* The text with every whole word that is a vocabulary term wrapped in "**".
RECURSIVE EmphasizedFrom(_, _, _)
EmphasizedFrom(s, idx, word) ==
    LET marked == IF word # <<>> /\ IsKeyword(MEDICAL_TERMS, word)
                  THEN <<"*", "*">> \o word \o <<"*", "*">>
                  ELSE word
    IN  IF idx > Len(s) THEN marked
        ELSE IF IsWordChar(s[idx])
             THEN EmphasizedFrom(s, idx + 1, Append(word, s[idx]))
             ELSE marked \o <<s[idx]>> \o EmphasizedFrom(s, idx + 1, <<>>)

Emphasized(s) == EmphasizedFrom(s, 1, <<>>)

\* C9: highlight_medical_terms wraps every occurrence of a vocabulary term in
\* emphasis markup, so that "Patient has diabetes and hypertension." becomes
\* "Patient has **diabetes** and **hypertension**."; the output differs from
\* the input whenever the input contains a vocabulary term. (Casing is left
\* aside here: the outputs are compared in lower case.)
C9_TermsEmphasized ==
    hl_done =>
        /\ LowerStr(hl_out) = LowerStr(Emphasized(hl_in))
        /\ Emphasized(hl_in) # hl_in => hl_out # hl_in

\* The text without emphasis markup.
Unmarked(s) == SelectSeq(s, LAMBDA c : c # "*")

\* C10: highlight_medical_terms keeps the content: apart from the markup it
\* adds, the output is the input, every matched term in the casing it had.
C10_ContentPreserved ==
    hl_done => Unmarked(hl_out) = hl_in

\* C11: when the summarization model raises, summarize_text returns the
\* leading min(len(text), 500) characters of its input, in order: at most 500
\* characters of an input of 500 or more, the whole input otherwise.
C11_FallbackIsPrefix ==
    \A r \in Sessions :
        ("summarize_text" \in Invoked(run[r]) /\ "summarize" \in run[r].faults) =>
            LET text == run[r].raw_text
                ret == run[r].summary
            IN  /\ Len(ret) = Min(Len(text), 500)
                /\ \A i \in 1..Len(ret) : ret[i] = text[i]
                /\ Len(text) >= 500 => Len(ret) <= 500
                /\ Len(text) < 500 => ret = text

C11_Witness ==
    \E r \in Sessions :
        /\ "summarize" \in run[r].faults
        /\ Len(run[r].raw_text) > 500
        /\ Len(run[r].summary) = 500

C13_OneMessageOnHalt ==
    \A r \in Sessions :
        (Extracted(run[r]) /\ run[r].raw_text = <<>> /\ run[r].pc # "gate") =>
            /\ run[r].halted
            /\ Len(run[r].messages) = 1

\* A text in which no whole word is a vocabulary term.
NoTerm(s) == Emphasized(s) = s

\* C14: on an input without vocabulary terms highlight_medical_terms is
\* idempotent: applying it to its own output gives that output again.
C14_IdempotentWithoutTerms ==
    (hl_done /\ NoTerm(hl_in)) => highlight_medical_terms(hl_out) = hl_out

C14_Witness ==
    /\ hl_done
    /\ NoTerm(hl_in)
    /\ hl_in = T_has \o <<" ">> \o T_prediabetes
    /\ hl_out = hl_in

\* C15: on every path through a request the temporary document file is
\* deleted exactly once: it is not left behind, and no second deletion is
\* attempted.
C15_TmpDeletedOnce ==
    \A r \in Sessions :
        /\ run[r].unlinks <= 1
        /\ run[r].pc = "end" => (run[r].unlinks = 1 /\ ~run[r].tmp_file)

\* C16: whenever the cleanup reads the audio-artifact variable, the variable
\* has been assigned, also when the run halted at the gate or a stage before
\* speech synthesis raised.
C16_AudioVariableBound ==
    \A r \in Sessions :
        run[r].pc = "cleanup_audio" => run[r].audio_file # "unbound"

\* The stages that consume the summary.
SummaryStages == {"highlight_medical_terms", "convert_to_braille", "text_to_speech"}

\* C17: data flows strictly forward. In one request each of the five stages
\* is invoked at most once; summarize_text is invoked only after
\* extract_text_from_pdf and with exactly the extracted text; the highlighter,
\* the Braille converter and the synthesizer are invoked only after
\* summarize_text has returned, with the summary it returned and never with
\* the output of a later stage.
C17_ForwardFlow ==
    \A r \in Sessions :
        LET calls == run[r].calls
        IN  /\ \A i, j \in 1..Len(calls) : i < j => calls[i].stage # calls[j].stage
            /\ \A i \in 1..Len(calls) :
                  /\ calls[i].stage = "summarize_text" =>
                        /\ \E j \in 1..(i - 1) : calls[j].stage = "extract_text_from_pdf"
                        /\ "extract" \notin run[r].escaped
                        /\ calls[i].arg = run[r].raw_text
                  /\ calls[i].stage \in SummaryStages =>
                        /\ \E j \in 1..(i - 1) : calls[j].stage = "summarize_text"
                        /\ calls[i].arg = run[r].summary

C17_Witness ==
    \E r \in Sessions :
        /\ run[r].pc = "end"
        /\ Len(run[r].calls) = 5
        /\ run[r].highlighted_summary # run[r].summary

====
